---- MODULE Spec2Model ----
(***************************************************************************)
(* Model of basic-mpsc-pubsub/src/main.rs: a broker thread that polls the  *)
(* outboxes of four modules and fans Generic messages out to subscribers,  *)
(* and one worker thread per module that passes inbound messages to its    *)
(* handler.                                                                *)
(*                                                                         *)
(* Messages are tuples whose first element is the enum variant:            *)
(*   InMessage : <<"Startup">> <<"Shutdown">> <<"Tick">>                   *)
(*               <<"Generic", topic, payload>>                             *)
(*   OutMessage: <<"Subscribe", topic>> <<"Unsubscribe", topic>>           *)
(*               <<"Generic", topic, payload>>                             *)
(* A channel is the sequence of messages sent and not yet received.        *)
(***************************************************************************)
EXTENDS Naturals, Sequences, FiniteSets

\* ------------------------------------------------------------------ bounds
\* Inbound stimuli (Startup / Shutdown / Tick) sent on the in_tx senders.
MaxInject == 2
\* Outbound messages sent by handlers other than the three wired in main.
MaxEmit == 2

\* ------------------------------------------------------- program constants
\* main pushes four modules (lines 237-242); the broker scans them in order.
NumModules == 4

Modules == 1..NumModules

Topics == {"/frames", "/faces"}

AppMessage == {"VideoFrame", "FaceCoords"}

\* The InMessage variants that carry no topic; nothing but a holder of in_tx
\* can send them.
Stimuli == {<<"Startup">>, <<"Shutdown">>, <<"Tick">>}

\* The publications an arbitrary handler chooses from: one per topic, one per
\* payload.
Publications ==
    {<<"Generic", "/frames", "VideoFrame">>, <<"Generic", "/faces", "FaceCoords">>}

OutMessage ==
    {<<"Subscribe", t>> : t \in Topics} \cup
    {<<"Unsubscribe", t>> : t \in Topics} \cup
    Publications

\* The handlers main passes to Module::new, in registration order.
MainHandlers ==
    [m \in Modules |->
        CASE m = 1 -> "camera_handler"
          [] m = 2 -> "face_detector_handler"
          [] m = 3 -> "display_handler"
          [] m = 4 -> "display_handler"]

\* `type Handler = fn(InMessage,&Sender<OutMessage>)`: besides the three
\* handlers of this file, "any_handler" stands for an arbitrary function of
\* that type, which may send any OutMessage values and then returns.
AnyHandlers == [m \in Modules |-> "any_handler"]

\* A wiring in which the first module has a handler of that type that
\* subscribes to a topic, publishes on it, and publishes again whatever it
\* receives; the other modules are displays.
EchoHandlers ==
    [m \in Modules |-> IF m = 1 THEN "echo_handler" ELSE "display_handler"]

\* ------------------------------------------------------------------- state
VARIABLES
    handler,        \* handler[m]: the fn given to Module::new for module m
    subscriptions,  \* subscriptions[m]: Module.subscriptions (HashSet<String>)
    in_chan,        \* in_chan[m]: messages sent on in_tx, not yet recv()ed
    out_chan,       \* out_chan[m]: messages sent on out_tx, not yet try_recv()ed
    running,        \* running[m]: the worker thread of m is alive (owns in_rx)
    wpc,            \* wpc[m]: "recv" (blocked in in_rx.recv()) or "handle"
    in_message,     \* in_message[m]: the message the handler of m is running on
    bpc,            \* broker position: "poll", "dispatch", "sleep", "panicked"
    module,         \* index of `module` in the outer for loop (line 251)
    target,         \* index of `target` in the inner for loop (line 272)
    out_message,    \* the Generic being dispatched (its topic and app_message)
    did_something,  \* the flag of line 248
    started,        \* history: the modules whose handler has run on Startup
    requested,      \* history: requested[m] = topics m has sent Subscribe for
    injected,       \* history: number of stimuli sent so far
    emitted         \* history: number of messages sent by any_handler so far

vars == <<handler, subscriptions, in_chan, out_chan, running, wpc, in_message,
          bpc, module, target, out_message, did_something,
          started, requested, injected, emitted>>

workerVars == <<running, wpc, in_message>>
brokerVars == <<bpc, module, target, out_message, did_something>>

NoMessage == <<>>

\* ------------------------------------------------- library calls, as used
\* Sender::send on a channel whose receiver exists: the message is queued
\* behind everything sent before.
send(chan, msg) == Append(chan, msg)

\* A handler's sends in program order.
RECURSIVE send_all(_, _)
send_all(chan, msgs) ==
    IF msgs = << >> THEN chan
    ELSE send_all(send(chan, Head(msgs)), Tail(msgs))

\* Mutant: the receiver hands out the newest message instead of the oldest.
recv_newest(chan) == chan[Len(chan)]

\* Receiver::recv / try_recv on a non-empty channel: the oldest message.
recv(chan) == Head(chan)

\* Mutant: taking a message drops the newest one from the channel.
after_recv_drop_newest(chan) == SubSeq(chan, 1, Len(chan) - 1)

\* What is left in the channel after recv / try_recv took a message.
after_recv(chan) == Tail(chan)

\* Mutant: insert of a member takes it out again (a toggle).
insert_toggle(set, topic) ==
    IF topic \in set THEN set \ {topic} ELSE set \cup {topic}

\* HashSet::insert
insert(set, topic) == set \cup {topic}

\* Mutant: remove leaves the set as it is.
remove_nothing(set, topic) == set

\* HashSet::remove
remove(set, topic) == set \ {topic}

\* Mutant: an empty subscription set matches every topic.
contains_or_empty(set, topic) == topic \in set \/ set = {}

\* HashSet::contains
contains(set, topic) == topic \in set

\* Mutant: the copy carries a fixed payload instead of a clone of the
\* published one.
InGeneric_fixed_payload(topic, app_message) == <<"Generic", topic, "VideoFrame">>

\* InMessage::Generic(topic.clone(),app_message.clone())
InGeneric(topic, app_message) == <<"Generic", topic, app_message>>

\* --------------------------------------------------------------- handlers
\* The messages a wired handler sends, in order, when run on message msg.
camera_handler(msg) ==
    IF msg[1] = "Tick" THEN << <<"Generic", "/frames", "VideoFrame">> >>
    ELSE << >>

\* Mutant: the face detector publishes face coordinates.
face_detector_handler_coords(msg) ==
    IF msg[1] = "Startup" THEN << <<"Subscribe", "/frames">> >>
    ELSE IF msg[1] = "Generic" /\ msg[3] = "VideoFrame"
         THEN << <<"Generic", "/faces", "FaceCoords">> >>
    ELSE << >>

face_detector_handler(msg) ==
    IF msg[1] = "Startup" THEN << <<"Subscribe", "/frames">> >>
    ELSE IF msg[1] = "Generic" /\ msg[3] = "VideoFrame"
         THEN << <<"Generic", "/faces", "VideoFrame">> >>
    ELSE << >>

display_handler(msg) ==
    IF msg[1] = "Startup" THEN << <<"Subscribe", "/faces">> >>
    ELSE << >>

\* A handler that subscribes to "/frames" and publishes on it at Startup,
\* and publishes again every message it is sent.
echo_handler(msg) ==
    IF msg[1] = "Startup"
    THEN << <<"Subscribe", "/frames">>, <<"Generic", "/frames", "VideoFrame">> >>
    ELSE IF msg[1] = "Generic" THEN << <<"Generic", msg[2], msg[3]>> >>
    ELSE << >>

Sent(h, msg) ==
    CASE h = "camera_handler" -> camera_handler(msg)
      [] h = "face_detector_handler" -> face_detector_handler(msg)
      [] h = "display_handler" -> display_handler(msg)
      [] h = "echo_handler" -> echo_handler(msg)

\* The Subscribe topics among a sequence of sent messages.
SubscribeTopics(sent) ==
    {sent[i][2] : i \in {j \in 1..Len(sent) : sent[j][1] = "Subscribe"}}

\* -------------------------------------------------------------------- Init
\* Mutant: main sends Startup to every module before it enters the loop.
Init_with_startup ==
    /\ handler \in {MainHandlers, AnyHandlers}
    /\ subscriptions = [m \in Modules |-> {}]
    /\ in_chan = [m \in Modules |-> << <<"Startup">> >>]
    /\ out_chan = [m \in Modules |-> << >>]
    /\ running = [m \in Modules |-> TRUE]
    /\ wpc = [m \in Modules |-> "recv"]
    /\ in_message = [m \in Modules |-> NoMessage]
    /\ bpc = "poll"
    /\ module = 1
    /\ target = 1
    /\ out_message = NoMessage
    /\ did_something = FALSE
    /\ started = {}
    /\ requested = [m \in Modules |-> {}]
    /\ injected = 0
    /\ emitted = 0

\* The state when main enters its endless loop: four modules, empty
\* subscription sets, empty channels, every worker blocked in recv().
Init ==
    /\ handler \in {MainHandlers, AnyHandlers}
    /\ subscriptions = [m \in Modules |-> {}]
    /\ in_chan = [m \in Modules |-> << >>]
    /\ out_chan = [m \in Modules |-> << >>]
    /\ running = [m \in Modules |-> TRUE]
    /\ wpc = [m \in Modules |-> "recv"]
    /\ in_message = [m \in Modules |-> NoMessage]
    /\ bpc = "poll"
    /\ module = 1
    /\ target = 1
    /\ out_message = NoMessage
    /\ did_something = FALSE
    /\ started = {}
    /\ requested = [m \in Modules |-> {}]
    /\ injected = 0
    /\ emitted = 0

\* The same state with the republishing wiring.
EchoInit ==
    /\ handler = EchoHandlers
    /\ subscriptions = [m \in Modules |-> {}]
    /\ in_chan = [m \in Modules |-> << >>]
    /\ out_chan = [m \in Modules |-> << >>]
    /\ running = [m \in Modules |-> TRUE]
    /\ wpc = [m \in Modules |-> "recv"]
    /\ in_message = [m \in Modules |-> NoMessage]
    /\ bpc = "poll"
    /\ module = 1
    /\ target = 1
    /\ out_message = NoMessage
    /\ did_something = FALSE
    /\ started = {}
    /\ requested = [m \in Modules |-> {}]
    /\ injected = 0
    /\ emitted = 0

\* ---------------------------------------------------------------- stimuli
\* The handlers of main tell the three stimuli apart; an arbitrary handler is
\* driven by Startup alone.
StimuliFor(h) == IF h = MainHandlers THEN Stimuli ELSE {<<"Startup">>}

\* A Startup, Shutdown or Tick is sent on module m's in_tx.
Inject(m, msg) ==
    /\ injected < MaxInject
    /\ bpc # "panicked"
    /\ running[m]
    /\ in_chan' = [in_chan EXCEPT ![m] = send(@, msg)]
    /\ injected' = injected + 1
    /\ UNCHANGED <<handler, subscriptions, out_chan, workerVars, brokerVars,
                   started, requested, emitted>>

\* ----------------------------------------------------------------- worker
\* Mutant: the worker takes the next message while the handler is still
\* running on the previous one.
at_recv_any_time(m) == TRUE

\* lines 82-86: the worker thread is one sequential loop, it is in recv()
\* only when no handler call is in progress.
at_recv(m) == wpc[m] = "recv"

\* Mutant: every sender of the inbound channel is gone as soon as the
\* channel is empty.
disconnected_when_idle(m) == TRUE

\* recv() returns Err only when every Sender of the channel has been
\* dropped; the one Sender, in_tx, is a field of the Module (lines 90-95),
\* which main keeps in `modules` for as long as it runs (lines 235-242).
disconnected(m) == FALSE

\* Mutant: the worker loop breaks after the handler has seen Shutdown.
after_handler_break_on_shutdown(msg) ==
    IF msg = <<"Shutdown">> THEN "ended" ELSE "recv"

\* lines 82-86: the loop body is the handler call alone, whatever the
\* message was the worker is back in recv() afterwards.
after_handler(msg) == "recv"

\* `while let Ok(in_message) = in_rx.recv()`: the blocked worker of m takes
\* the next message and calls the handler on it; were recv() to fail, the
\* loop and the thread would end.
WorkerRecv(m) ==
    /\ bpc # "panicked"
    /\ running[m]
    /\ at_recv(m)
    /\ IF in_chan[m] # << >>
       THEN /\ in_message' = [in_message EXCEPT ![m] = recv(in_chan[m])]
            /\ in_chan' = [in_chan EXCEPT ![m] = after_recv(@)]
            /\ wpc' = [wpc EXCEPT ![m] = "handle"]
            /\ UNCHANGED running
       ELSE /\ disconnected(m)
            /\ running' = [running EXCEPT ![m] = FALSE]
            /\ wpc' = [wpc EXCEPT ![m] = "ended"]
            /\ UNCHANGED <<in_chan, in_message>>
    /\ UNCHANGED <<handler, subscriptions, out_chan, brokerVars,
                   started, requested, injected, emitted>>

\* One of the three handlers of this file runs on in_message[m]: it sends
\* what its match arm sends and returns; the worker loops back to recv().
HandlerRun(m) ==
    /\ bpc # "panicked"
    /\ wpc[m] = "handle"
    /\ handler[m] # "any_handler"
    /\ LET sent == Sent(handler[m], in_message[m]) IN
        /\ out_chan' = [out_chan EXCEPT ![m] = send_all(@, sent)]
        /\ requested' = [requested EXCEPT ![m] = @ \cup SubscribeTopics(sent)]
    /\ started' = IF in_message[m] = <<"Startup">> THEN started \cup {m}
                  ELSE started
    /\ wpc' = [wpc EXCEPT ![m] = after_handler(in_message[m])]
    /\ in_message' = [in_message EXCEPT ![m] = NoMessage]
    /\ UNCHANGED <<handler, subscriptions, in_chan, running, brokerVars,
                   injected, emitted>>

\* An arbitrary handler sends one more message on out_tx.
AnyHandlerSend(m, out) ==
    /\ bpc # "panicked"
    /\ wpc[m] = "handle"
    /\ handler[m] = "any_handler"
    /\ emitted < MaxEmit
    /\ out_chan' = [out_chan EXCEPT ![m] = send(@, out)]
    /\ requested' = [requested EXCEPT
                       ![m] = IF out[1] = "Subscribe" THEN @ \cup {out[2]} ELSE @]
    /\ emitted' = emitted + 1
    /\ UNCHANGED <<handler, subscriptions, in_chan, workerVars, brokerVars,
                   started, injected>>

\* An arbitrary handler returns; the worker loops back to recv().
AnyHandlerReturn(m) ==
    /\ bpc # "panicked"
    /\ wpc[m] = "handle"
    /\ handler[m] = "any_handler"
    /\ started' = IF in_message[m] = <<"Startup">> THEN started \cup {m}
                  ELSE started
    /\ wpc' = [wpc EXCEPT ![m] = after_handler(in_message[m])]
    /\ in_message' = [in_message EXCEPT ![m] = NoMessage]
    /\ UNCHANGED <<handler, subscriptions, in_chan, out_chan, running,
                   brokerVars, requested, injected, emitted>>

\* An arbitrary handler panics: the worker thread unwinds and ends, and its
\* in_rx is dropped together with whatever the channel still held.  What the
\* handler had sent on out_tx stays in the outbox.
AnyHandlerPanic(m) ==
    /\ bpc # "panicked"
    /\ wpc[m] = "handle"
    /\ handler[m] = "any_handler"
    /\ running' = [running EXCEPT ![m] = FALSE]
    /\ wpc' = [wpc EXCEPT ![m] = "ended"]
    /\ in_message' = [in_message EXCEPT ![m] = NoMessage]
    /\ in_chan' = [in_chan EXCEPT ![m] = << >>]
    /\ UNCHANGED <<handler, subscriptions, out_chan, brokerVars, started,
                   requested, injected, emitted>>

\* ----------------------------------------------------------------- broker
\* `while let Ok(out_message) = module.out_rx.try_recv()` yields a message.
TryRecvOk == bpc = "poll" /\ out_chan[module] # << >>

\* Mutant: the channel holds one message at most (a sync_channel(1)), so a
\* send waits while the receiver has not taken the previous one.
can_send_bounded(chan) == Len(chan) < 1

\* line 68: mpsc::channel() is unbounded and its send never waits.
can_send(chan) == TRUE

\* Mutant: the broker sleeps at the end of every cycle.
should_sleep_always(did) == TRUE

\* line 285: `if !did_something`.
should_sleep(did) == ~did

\* Mutant: the result of send is thrown away instead of being expect()ed.
send_fails_ignored(t) == FALSE

\* line 276: in_tx.send(..) returns Err, and expect panics, when the receiver
\* of the channel is gone, that is when the worker thread of t has ended.
send_fails(t) == ~running[t]

\* Mutant: the test looks at the topics the module has asked for so far,
\* whether or not the broker has processed the request (or a later
\* Unsubscribe).
is_subscribed_requested(t, topic) == contains(requested[t], topic)

\* Mutant: the publishing module is skipped.
is_subscribed_not_self(t, topic) ==
    contains(subscriptions[t], topic) /\ t # module

\* line 273: the test that decides whether module t gets a copy.
is_subscribed(t, topic) == contains(subscriptions[t], topic)

\* Mutant: the topic is inserted into the set of every module.
subscribe_all(subs, m, topic) == [x \in Modules |-> insert(subs[x], topic)]

\* line 262: module.subscriptions.borrow_mut().insert(topic), on the module
\* whose outbox the message came from.
subscribe(subs, m, topic) == [subs EXCEPT ![m] = insert(@, topic)]

\* line 267: module.subscriptions.borrow_mut().remove(&topic).
unsubscribe(subs, m, topic) == [subs EXCEPT ![m] = remove(@, topic)]

\* OutMessage::Subscribe(topic), lines 261-263.
BrokerSubscribe ==
    /\ TryRecvOk
    /\ recv(out_chan[module])[1] = "Subscribe"
    /\ out_chan' = [out_chan EXCEPT ![module] = after_recv(@)]
    /\ did_something' = TRUE
    /\ subscriptions' = subscribe(subscriptions, module,
                                  recv(out_chan[module])[2])
    /\ UNCHANGED <<handler, in_chan, workerVars, bpc, module, target,
                   out_message, started, requested, injected, emitted>>

\* OutMessage::Unsubscribe(topic), lines 266-268.
BrokerUnsubscribe ==
    /\ TryRecvOk
    /\ recv(out_chan[module])[1] = "Unsubscribe"
    /\ out_chan' = [out_chan EXCEPT ![module] = after_recv(@)]
    /\ did_something' = TRUE
    /\ subscriptions' = unsubscribe(subscriptions, module,
                                    recv(out_chan[module])[2])
    /\ UNCHANGED <<handler, in_chan, workerVars, bpc, module, target,
                   out_message, started, requested, injected, emitted>>

\* OutMessage::Generic(topic,app_message), line 271: the broker enters the
\* inner for loop over the targets.
BrokerGeneric ==
    /\ TryRecvOk
    /\ recv(out_chan[module])[1] = "Generic"
    /\ out_chan' = [out_chan EXCEPT ![module] = after_recv(@)]
    /\ did_something' = TRUE
    /\ out_message' = recv(out_chan[module])
    /\ bpc' = "dispatch"
    /\ target' = 1
    /\ UNCHANGED <<handler, subscriptions, in_chan, workerVars, module,
                   started, requested, injected, emitted>>

\* One iteration of `for target in &modules`, lines 272-278: a subscribed
\* target is sent a copy; a send to a target whose worker is gone panics.
\* After the last target the broker is back in the try_recv loop on the
\* same module.
BrokerSend ==
    /\ bpc = "dispatch"
    /\ is_subscribed(target, out_message[2]) => can_send(in_chan[target])
    /\ IF is_subscribed(target, out_message[2]) /\ send_fails(target)
       THEN /\ bpc' = "panicked"
            /\ UNCHANGED <<in_chan, target, out_message>>
       ELSE /\ in_chan' = IF is_subscribed(target, out_message[2])
                          THEN [in_chan EXCEPT
                                  ![target] = send(@, InGeneric(out_message[2],
                                                                out_message[3]))]
                          ELSE in_chan
            /\ bpc' = IF target = NumModules THEN "poll" ELSE "dispatch"
            /\ target' = IF target = NumModules THEN 1 ELSE target + 1
            /\ out_message' = IF target = NumModules THEN NoMessage
                              ELSE out_message
    /\ UNCHANGED <<handler, subscriptions, out_chan, workerVars, module,
                   did_something, started, requested, injected, emitted>>

\* try_recv finds the outbox of `module` empty and there is a next module.
BrokerNextModule ==
    /\ bpc = "poll"
    /\ out_chan[module] = << >>
    /\ module < NumModules
    /\ module' = module + 1
    /\ UNCHANGED <<handler, subscriptions, in_chan, out_chan, workerVars, bpc,
                   target, out_message, did_something, started, requested,
                   injected, emitted>>

\* try_recv finds the outbox of the last module empty: lines 285-287, the
\* cycle ends in the sleep if nothing was received, else the next cycle
\* starts at once (line 248).
BrokerEndCycle ==
    /\ bpc = "poll"
    /\ out_chan[module] = << >>
    /\ module = NumModules
    /\ IF should_sleep(did_something)
       THEN /\ bpc' = "sleep"
            /\ UNCHANGED <<did_something, module>>
       ELSE /\ did_something' = FALSE
            /\ module' = 1
            /\ bpc' = "poll"
    /\ UNCHANGED <<handler, subscriptions, in_chan, out_chan, workerVars,
                   target, out_message, started, requested, injected,
                   emitted>>

\* thread::sleep returns; the next cycle starts.
BrokerWake ==
    /\ bpc = "sleep"
    /\ bpc' = "poll"
    /\ module' = 1
    /\ did_something' = FALSE
    /\ UNCHANGED <<handler, subscriptions, in_chan, out_chan, workerVars,
                   target, out_message, started, requested, injected,
                   emitted>>

Broker ==
    \/ BrokerSubscribe
    \/ BrokerUnsubscribe
    \/ BrokerGeneric
    \/ BrokerSend
    \/ BrokerNextModule
    \/ BrokerEndCycle
    \/ BrokerWake

Worker(m) ==
    \/ WorkerRecv(m)
    \/ HandlerRun(m)
    \/ \E out \in OutMessage : AnyHandlerSend(m, out)
    \/ AnyHandlerReturn(m)

Next ==
    \/ \E m \in Modules, msg \in StimuliFor(handler) : Inject(m, msg)
    \/ \E m \in Modules : Worker(m)
    \/ Broker

Spec == Init /\ [][Next]_vars

\* The broker thread and the worker threads are OS threads and each keeps
\* running; nothing obliges anyone to send a stimulus.
FairSpec ==
    /\ Spec
    /\ WF_vars(Broker)
    /\ \A m \in Modules : WF_vars(Worker(m))

\* The steps of the threads under the republishing wiring, in which no
\* handler is arbitrary and none sends Unsubscribe.
EchoWorker(m) ==
    \/ WorkerRecv(m)
    \/ HandlerRun(m)

EchoBroker ==
    \/ BrokerSubscribe
    \/ BrokerGeneric
    \/ BrokerSend
    \/ BrokerNextModule
    \/ BrokerEndCycle
    \/ BrokerWake

EchoNext ==
    \/ \E m \in Modules, msg \in StimuliFor(handler) : Inject(m, msg)
    \/ \E m \in Modules : EchoWorker(m)
    \/ EchoBroker

\* The same threads, equally fair, with the republishing wiring.
EchoFairSpec ==
    /\ EchoInit
    /\ [][EchoNext]_vars
    /\ WF_vars(EchoBroker)
    /\ \A m \in Modules : WF_vars(EchoWorker(m))

\* The same threads with handlers that may also panic.
PanicNext ==
    \/ Next
    \/ \E m \in Modules : AnyHandlerPanic(m)

PanicSpec == Init /\ [][PanicNext]_vars

\* ------------------------------------------------------------ step shapes
\* The step is an iteration of the inner for loop (a BrokerSend step): no
\* other action changes <<bpc, target>> while the broker is dispatching.
SendStep == bpc = "dispatch" /\ <<bpc, target>>' # <<bpc, target>>

\* The step is a successful try_recv on the outbox of m: only the broker
\* takes messages out of an outbox.
TakeStep(m) == Len(out_chan'[m]) < Len(out_chan[m])

Last(chan) == chan[Len(chan)]

\* ------------------------------------------------------------------ claims

C2_SubscribeUnsubscribe ==
    [][ \A m \in Modules, t \in Topics :
          /\ (TakeStep(m) /\ Head(out_chan[m]) = <<"Subscribe", t>>)
             => t \in subscriptions'[m]
          /\ (t \in subscriptions[m] /\ t \notin subscriptions'[m])
             => (TakeStep(m) /\ Head(out_chan[m]) = <<"Unsubscribe", t>>)
          /\ (TakeStep(m) /\ Head(out_chan[m]) = <<"Unsubscribe", t>>)
             => t \notin subscriptions'[m]
      ]_vars

\* A module asked for a topic, all it sent has been processed, and the topic
\* is not in its set: its Unsubscribe was processed after its Subscribe.
C2_Witness ==
    \E m \in Modules, t \in Topics :
      /\ t \in requested[m]
      /\ emitted = 2
      /\ out_chan[m] = << >>
      /\ t \notin subscriptions[m]
      /\ bpc = "poll"

\* C3: the broker sends Startup to every module it has started, so under
\* fair scheduling the handler of every registered module eventually runs
\* on Startup.  Stated for the modules as main wires them.
C3_EveryModuleStarts ==
    handler = MainHandlers => \A m \in Modules : <>(m \in started)

\* Startup has reached module m: it is in its inbound channel, being
\* handled, or was handled.
StartupReceived(m) ==
    \/ m \in started
    \/ in_message[m] = <<"Startup">>
    \/ \E i \in 1..Len(in_chan[m]) : in_chan[m][i] = <<"Startup">>

\* C4: startup ordering: the broker dispatches no Generic before every
\* registered module has received Startup.  Stated for the modules as main
\* wires them.
C4_StartupBeforeDispatch ==
    (handler = MainHandlers /\ bpc = "dispatch")
    => \A m \in Modules : StartupReceived(m)

\* C5: per-module order is preserved: an inbound channel changes only by a
\* message appended at its tail or by the worker taking the message at its
\* head, and the handler runs on exactly the message taken from the head.
C5_InboundFifo ==
    [][ \A m \in Modules :
          /\ \/ in_chan'[m] = in_chan[m]
             \/ /\ Len(in_chan'[m]) = Len(in_chan[m]) + 1
                /\ SubSeq(in_chan'[m], 1, Len(in_chan[m])) = in_chan[m]
             \/ /\ in_chan[m] # << >>
                /\ in_chan'[m] = Tail(in_chan[m])
                /\ wpc[m] = "recv" /\ wpc'[m] = "handle"
                /\ in_message'[m] = Head(in_chan[m])
          /\ in_message'[m] # in_message[m]
             => \/ in_message'[m] = NoMessage
                \/ /\ in_chan[m] # << >>
                   /\ in_message'[m] = Head(in_chan[m])
                   /\ in_chan'[m] = Tail(in_chan[m])
      ]_vars

\* A handler runs on a dispatched Generic while a different, later message
\* waits in the same inbound channel.
C5_Witness ==
    \E m \in Modules :
      /\ wpc[m] = "handle"
      /\ in_message[m][1] = "Generic"
      /\ in_chan[m] # << >>
      /\ Head(in_chan[m]) # in_message[m]

\* C6: Subscribe and Unsubscribe are idempotent: processing Subscribe(T)
\* leaves T a member, and when T was a member already it leaves every set as
\* it was; processing Unsubscribe(T) leaves T a non-member, and when T was no
\* member it leaves every set as it was.  So the second of two equal requests
\* in a row changes nothing.
C6_Idempotent ==
    [][ \A m \in Modules, t \in Topics :
          /\ (TakeStep(m) /\ Head(out_chan[m]) = <<"Subscribe", t>>)
             => /\ t \in subscriptions'[m]
                /\ t \in subscriptions[m] => subscriptions' = subscriptions
                /\ Cardinality(subscriptions'[m]) =
                     Cardinality(subscriptions[m] \cup {t})
          /\ (TakeStep(m) /\ Head(out_chan[m]) = <<"Unsubscribe", t>>)
             => /\ t \notin subscriptions'[m]
                /\ t \notin subscriptions[m] => subscriptions' = subscriptions
      ]_vars

\* The broker has processed one message of a module in this cycle and the
\* next in its outbox is a Subscribe for a topic the module is subscribed to.
C6_Witness ==
    /\ bpc = "poll"
    /\ did_something
    /\ out_chan[module] # << >>
    /\ Head(out_chan[module])[1] = "Subscribe"
    /\ Head(out_chan[module])[2] \in subscriptions[module]
    /\ Head(out_chan[module])[2] \in requested[module]

\* No module is subscribed to topic t.
NoSubscriber(t) == \A m \in Modules : t \notin subscriptions[m]

\* C7: publishing Generic(T, P) when no module is subscribed to T appends
\* nothing to any inbound channel, does not abort the broker and changes no
\* subscription set; after the scan the broker is back at the outbox it took
\* the message from, ready for the next outbound message.
C7_RoutingMiss ==
    [][ (SendStep /\ NoSubscriber(out_message[2]))
        => /\ in_chan' = in_chan
           /\ subscriptions' = subscriptions
           /\ bpc' # "panicked"
           /\ module' = module
           /\ target = NumModules => bpc' = "poll"
      ]_vars

\* The scan for a topic nobody is subscribed to has reached the last module
\* and no inbound channel holds anything.
C7_Witness ==
    /\ bpc = "dispatch"
    /\ target = NumModules
    /\ NoSubscriber(out_message[2])
    /\ \A m \in Modules : in_chan[m] = << >>

\* C8: a subscription set changes only in a broker step that takes a
\* Subscribe or Unsubscribe from that same module's outbox; a step that takes
\* a Generic, an iteration of the scan and every worker step leave all sets
\* unchanged.  Consequently every topic in subscriptions(M) is one M itself
\* sent a Subscribe for.
C8_OnlyOwnRequests ==
    /\ [][ \A m \in Modules :
             subscriptions'[m] # subscriptions[m]
             => /\ bpc = "poll" /\ module = m
                /\ TakeStep(m)
                /\ Head(out_chan[m])[1] \in {"Subscribe", "Unsubscribe"}
                /\ \A o \in Modules \ {m} :
                     subscriptions'[o] = subscriptions[o]
         ]_vars
    /\ [](\A m \in Modules : subscriptions[m] \subseteq requested[m])

\* One module is subscribed to a topic while another module, whose handler
\* has run as well, has an empty set.
C8_Witness ==
    \E m, o \in Modules :
      /\ m # o
      /\ subscriptions[m] # {}
      /\ subscriptions[o] = {}
      /\ o \in started

\* C9: no retroactive delivery: a Generic enters the inbound channel of M
\* only in the iteration of the scan that visits M, and only if the topic of
\* the message being dispatched is in subscriptions(M) in that very state;
\* processing a Subscribe or an Unsubscribe delivers nothing, and the sets do
\* not change while a scan is under way.
C9_NoRetroactiveDelivery ==
    [][ /\ \A m \in Modules :
             (/\ Len(in_chan'[m]) > Len(in_chan[m])
              /\ Last(in_chan'[m])[1] = "Generic")
             => /\ SendStep
                /\ target = m
                /\ out_message[2] \in subscriptions[m]
                /\ Last(in_chan'[m]) = out_message
        /\ (\E m \in Modules :
              TakeStep(m) /\ Head(out_chan[m])[1] # "Generic")
           => in_chan' = in_chan
        /\ bpc = "dispatch" => subscriptions' = subscriptions
      ]_vars

\* The scan has passed a module that is not subscribed to the topic being
\* dispatched and holds no copy, while its Subscribe for that topic still
\* waits in its outbox.
C9_Witness ==
    /\ bpc = "dispatch"
    /\ \E m \in Modules :
         /\ m < target
         /\ out_message[2] \notin subscriptions[m]
         /\ out_chan[m] # << >>
         /\ Head(out_chan[m]) = <<"Subscribe", out_message[2]>>
         /\ in_chan[m] = << >>

\* C10: self-delivery is not suppressed: the iteration of the scan that
\* visits the publishing module appends one copy to its own inbound channel
\* when it is subscribed to the topic.
C10_SelfDelivery ==
    [][ (SendStep /\ target = module /\ out_message[2] \in subscriptions[module])
        => in_chan'[module] =
             Append(in_chan[module],
                    <<"Generic", out_message[2], out_message[3]>>)
      ]_vars

\* The scan has passed the publishing module, which is subscribed and holds
\* the copy of its own message.
C10_Witness ==
    /\ bpc = "dispatch"
    /\ target > module
    /\ out_message[2] \in subscriptions[module]
    /\ in_chan[module] # << >>
    /\ Last(in_chan[module]) = out_message

\* C11: delivery failure is fatal: when the scan reaches a subscribed module
\* whose worker has ended (its inbound endpoint is closed) the broker panics
\* at that send without delivering, and from then on no outbound message is
\* taken, no subscription set changes and nothing more is delivered to any
\* module, the later subscribers of the same message included.
C11_DeliveryFailureFatal ==
    [][ /\ (/\ SendStep
            /\ out_message[2] \in subscriptions[target]
            /\ ~running[target])
           => (bpc' = "panicked" /\ in_chan' = in_chan)
        /\ bpc = "panicked"
           => /\ bpc' = "panicked"
              /\ in_chan' = in_chan
              /\ out_chan' = out_chan
              /\ subscriptions' = subscriptions
      ]_vars

\* The broker has panicked at a subscribed target whose worker has ended,
\* before the scan reached the last module.
C11_Witness ==
    /\ bpc = "panicked"
    /\ ~running[target]
    /\ out_message[2] \in subscriptions[target]
    /\ target < NumModules

\* C12: a worker handles its inbound messages strictly one at a time: it
\* holds a message exactly while its handler runs, and it takes the next
\* message from its inbound channel only when no handler call is in
\* progress, the message taken being the one the handler is then called on.
C12_OneAtATime ==
    [][ \A m \in Modules :
          /\ (wpc[m] = "handle") <=> (in_message[m] # NoMessage)
          /\ Len(in_chan'[m]) < Len(in_chan[m])
             => /\ wpc[m] = "recv"
                /\ in_message[m] = NoMessage
                /\ wpc'[m] = "handle"
                /\ in_message'[m] = Head(in_chan[m])
      ]_vars

\* A wired handler is running on Startup while a later message waits in the
\* inbound channel of its module.
C12_Witness ==
    \E m \in Modules :
      /\ handler = MainHandlers
      /\ in_message[m] = <<"Startup">>
      /\ Len(in_chan[m]) >= 1

\* C13: bulkheading: while the handler of a module w does not return, the
\* broker always has a step to take, a dispatch step included (the send on
\* an unbounded channel never waits, whatever the target's backlog), and
\* every other module with a waiting message can take it and every other
\* running handler can return.
C13_Bulkheading ==
    \A w \in Modules :
      (wpc[w] = "handle" /\ bpc # "panicked")
      => /\ ENABLED Broker
         /\ bpc = "dispatch" => ENABLED BrokerSend
         /\ \A n \in Modules \ {w} :
              /\ (wpc[n] = "recv" /\ in_chan[n] # << >>)
                 => ENABLED WorkerRecv(n)
              /\ wpc[n] = "handle"
                 => ENABLED (HandlerRun(n) \/ AnyHandlerReturn(n))

\* The broker is about to deliver to a subscribed module whose handler has
\* not returned and which has a backlog already, while another module has
\* a message waiting.
C13_Witness ==
    \E w \in Modules :
      /\ wpc[w] = "handle"
      /\ bpc = "dispatch"
      /\ target = w
      /\ out_message[2] \in subscriptions[w]
      /\ in_chan[w] # << >>

\* C14: pull strategy: the broker visits the modules in registration order,
\* leaving a module only for the next one and only once a non-blocking
\* receive has found its outbox empty; every message it takes is taken
\* from the module it is visiting and marks the cycle as busy; the cycle
\* ends after the last module, in a sleep exactly when no outbound message
\* was processed during it, otherwise the next cycle starts at once with
\* the first module.
C14_PullStrategy ==
    [][ /\ module' # module
           => /\ bpc \in {"poll", "sleep"}
              /\ bpc = "poll" => out_chan[module] = << >>
              /\ module' = IF module = NumModules \/ bpc = "sleep"
                           THEN 1 ELSE module + 1
        /\ \A m \in Modules :
             TakeStep(m) => (bpc = "poll" /\ m = module /\ did_something')
        /\ (did_something /\ ~did_something')
           => (module' = 1 /\ bpc \in {"poll", "sleep"})
        /\ (bpc = "poll" /\ bpc' = "sleep")
           => (module = NumModules /\ out_chan[module] = << >>
               /\ ~did_something)
        /\ (bpc = "poll" /\ module = NumModules /\ module' = 1)
           => (did_something /\ bpc' = "poll" /\ ~did_something')
        /\ (bpc = "sleep" /\ bpc' # "sleep")
           => (bpc' = "poll" /\ module' = 1 /\ ~did_something')
      ]_vars

\* The broker is at the end of a cycle in which it processed a message:
\* the step it takes from here starts the next cycle without a sleep.
C14_Witness ==
    /\ bpc = "poll"
    /\ module = NumModules
    /\ out_chan[module] = << >>
    /\ did_something

\* C15: Shutdown is advisory: when a wired handler returns from Shutdown
\* the worker is still running and back in recv(), the subscription sets
\* and the module's channels are as they were, and a message waiting behind
\* the Shutdown is handled next.
C15_ShutdownAdvisory ==
    /\ [][ \A m \in Modules :
             (in_message[m] = <<"Shutdown">> /\ in_message'[m] # <<"Shutdown">>)
             => /\ running'[m]
                /\ wpc'[m] = "recv"
                /\ subscriptions' = subscriptions
                /\ in_chan'[m] = in_chan[m]
                /\ out_chan'[m] = out_chan[m]
          ]_vars
    /\ \A m \in Modules :
         (in_message[m] = <<"Shutdown">> /\ in_chan[m] = << <<"Tick">> >>)
         ~> (in_message[m] = <<"Tick">>)

\* A handler is running on Shutdown and a Tick waits behind it.
C15_Witness ==
    \E m \in Modules :
      /\ in_message[m] = <<"Shutdown">>
      /\ in_chan[m] = << <<"Tick">> >>

\* C19: the fatal delivery failure cannot happen in this program: every
\* worker thread keeps running (its recv() never fails) and the broker
\* never panics at a send.
C19_NoDeliveryFailure ==
    /\ \A m \in Modules : running[m] /\ wpc[m] # "ended"
    /\ bpc # "panicked"
    /\ bpc = "dispatch" => ~send_fails(target)

\* A worker is blocked in recv() on an empty inbound channel after it has
\* handled a message, while the broker delivers to a subscribed module.
C19_Witness ==
    /\ \E m \in Modules :
         wpc[m] = "recv" /\ in_chan[m] = << >> /\ m \in started
    /\ bpc = "dispatch"
    /\ out_message[2] \in subscriptions[target]

\* C16: the program as main wires it, with nothing sent from outside: no
\* handler ever runs, the four subscription sets and all eight channels
\* stay empty, and the broker only repeats idle poll cycles, each of which
\* ends in the sleep.
C16_ClosedProgramIdle ==
    (handler = MainHandlers /\ injected = 0)
    => /\ \A m \in Modules :
            /\ subscriptions[m] = {}
            /\ in_chan[m] = << >>
            /\ out_chan[m] = << >>
            /\ wpc[m] = "recv"
            /\ in_message[m] = NoMessage
       /\ started = {}
       /\ bpc \in {"poll", "sleep"}
       /\ out_message = NoMessage
       /\ ~did_something
       /\ ~ENABLED (\E m \in Modules : Worker(m))

\* The wired program, undisturbed, is in the sleep at the end of a cycle.
C16_Witness ==
    /\ handler = MainHandlers
    /\ injected = 0
    /\ bpc = "sleep"

\* C17: an outbox is first-in first-out for its one sender: it changes only
\* by a send at its tail or by the broker, visiting that module, taking its
\* head, and with a message waiting the broker does nothing else; so a
\* Subscribe(T) is in force before the Generic(T, P) sent right after it is
\* dispatched, and the publisher gets P itself, and an Unsubscribe(T) is in
\* force before the Generic(T, P) sent right after it is dispatched, and
\* the publisher does not get P.
C17_OutboxFifo ==
    [][ /\ \A m \in Modules :
             /\ out_chan'[m] # out_chan[m]
                => \/ /\ Len(out_chan'[m]) > Len(out_chan[m])
                      /\ SubSeq(out_chan'[m], 1, Len(out_chan[m])) = out_chan[m]
                   \/ /\ out_chan'[m] = Tail(out_chan[m])
                      /\ bpc = "poll"
                      /\ module = m
             /\ (TakeStep(m) /\ Len(out_chan[m]) >= 2
                 /\ out_chan[m][2][1] = "Generic"
                 /\ out_chan[m][1] = <<"Subscribe", out_chan[m][2][2]>>)
                => /\ out_chan[m][2][2] \in subscriptions'[m]
                   /\ Head(out_chan'[m]) = out_chan[m][2]
                   /\ module' = m /\ bpc' = "poll"
             /\ (TakeStep(m) /\ Len(out_chan[m]) >= 2
                 /\ out_chan[m][2][1] = "Generic"
                 /\ out_chan[m][1] = <<"Unsubscribe", out_chan[m][2][2]>>)
                => /\ out_chan[m][2][2] \notin subscriptions'[m]
                   /\ Head(out_chan'[m]) = out_chan[m][2]
                   /\ module' = m /\ bpc' = "poll"
        /\ (/\ bpc = "poll"
            /\ out_chan[module] # << >>
            /\ <<brokerVars, subscriptions>>' # <<brokerVars, subscriptions>>)
           => /\ TakeStep(module)
              /\ Head(out_chan[module])[1] = "Generic"
                 => /\ out_message' = Head(out_chan[module])
                    /\ bpc' = "dispatch"
                    /\ subscriptions' = subscriptions
        /\ (SendStep /\ target = module)
           => IF out_message[2] \in subscriptions[module]
              THEN in_chan'[module] = Append(in_chan[module], out_message)
              ELSE in_chan'[module] = in_chan[module]
      ]_vars

\* One handler call has sent Subscribe(T) and then Generic(T, P), nothing
\* else was ever sent, and the publisher holds its own P.
C17_Witness ==
    /\ injected = 1
    /\ emitted = 2
    /\ bpc = "dispatch"
    /\ target > module
    /\ requested[module] = {out_message[2]}
    /\ subscriptions[module] = {out_message[2]}
    /\ in_chan[module] = << out_message >>

\* The messages the handler of m may have put into its outbox.
WiredOutput(m) ==
    CASE m = 1 -> {<<"Generic", "/frames", "VideoFrame">>}
      [] m = 2 -> {<<"Subscribe", "/frames">>,
                   <<"Generic", "/faces", "VideoFrame">>}
      [] OTHER -> {<<"Subscribe", "/faces">>}

CarriesFaceCoords(msg) == Len(msg) = 3 /\ msg[3] = "FaceCoords"

====
